---- MODULE Spec2Model ----
(***************************************************************************)
(* The LLM council of backend/council.py and the two endpoints of          *)
(* backend/main.py that run it: the blocking endpoint send_message (which  *)
(* calls run_full_council) and the streaming endpoint send_message_stream  *)
(* (whose event_generator runs the same stages and yields events).         *)
(*                                                                         *)
(* One conversation is modelled.  Requests ("turns") arrive one after the  *)
(* other; each turn is served by one of the two endpoints.  The model      *)
(* query collaborator (query_model) is deterministic per call: the outcome *)
(* of a call is chosen when the call first resolves and is recorded in     *)
(* oracle, so that a later turn that issues the same call gets the same    *)
(* outcome.  The order in which concurrent calls resolve is free.          *)
(***************************************************************************)
EXTENDS Integers, Sequences, FiniteSets, TLC

\* ------------------------------------------------------------------ bounds
\* longest persona list the planner model returns
MaxPlanned == 2
\* number of requests served on the conversation
MaxTurns == 2

\* the longest Stage1 result list whose labels are computed
MaxResults == 27

\* the longest ranking text, in tokens, given to the parser
MaxTextLen == 4

\* the longest list of numbered entries in a ranking given to the aggregator
MaxRanked == 3

\* -------------------------------------------------------------------- state
VARIABLES
  turn,               \* number of requests received so far
  iface,              \* the endpoint serving the current request
  pc,                 \* position of the current request's handler
  is_first_message,   \* main.py: len(conversation["messages"]) == 0
  messages,           \* storage: the conversation's messages
  title,              \* storage: the conversation's title
  personas,           \* result of generate_dynamic_personas
  tasks,              \* the calls of the current asyncio.gather
  completed,          \* indices of tasks, in the order the calls resolved
  stage1_results,
  label_to_persona,
  stage2_results,
  aggregate_rankings,
  stage3_result,
  ret,                \* what run_full_council returned (blocking endpoint)
  events,             \* what event_generator yielded (streaming endpoint)
  calls,              \* the query_model calls issued in this turn, in order
  title_task,         \* the asyncio task of the streaming endpoint
  err,                \* the step at which an exception was raised, or ""
  oracle,             \* outcomes of the query_model calls resolved so far
  history             \* summaries of the finished turns

vars ==
  <<turn, iface, pc, is_first_message, messages, title, personas, tasks, completed,
    stage1_results, label_to_persona, stage2_results, aggregate_rankings,
    stage3_result, ret, events, calls, title_task, err, oracle, history>>

pipeline_vars ==
  <<personas, tasks, completed, stage1_results, label_to_persona, stage2_results,
    aggregate_rankings, stage3_result>>

\* ----------------------------------------------------------- configuration
CHAIRMAN_MODEL == "google/gemini-3-pro-preview"

TITLE_MODEL == "google/gemini-2.5-flash"

\* config.PERSONAS: persona id -> fields (the entries carry no "id" key)
PERSONAS ==
  [ skeptic        |-> [name |-> "The Skeptic", role |-> "Critical Analyst",
                        icon |-> "icon-skeptic", model |-> "anthropic/claude-sonnet-4.5",
                        system_prompt |-> "You are The Skeptic."],
    visionary      |-> [name |-> "The Visionary", role |-> "Future Thinker",
                        icon |-> "icon-visionary", model |-> "openai/gpt-5.1",
                        system_prompt |-> "You are The Visionary."],
    pragmatist     |-> [name |-> "The Pragmatist", role |-> "Practical Implementer",
                        icon |-> "icon-pragmatist", model |-> "google/gemini-3-pro-preview",
                        system_prompt |-> "You are The Pragmatist."],
    historian      |-> [name |-> "The Historian", role |-> "Context Provider",
                        icon |-> "icon-historian", model |-> "anthropic/claude-sonnet-4.5",
                        system_prompt |-> "You are The Historian."],
    devil_advocate |-> [name |-> "Devil's Advocate", role |-> "Contrarian",
                        icon |-> "icon-devil", model |-> "x-ai/grok-4",
                        system_prompt |-> "You are the Devil's Advocate."] ]

DEFAULT_PERSONAS == <<"skeptic", "visionary", "pragmatist">>

\* ------------------------------------------------------------- JSON values
\* A persona object as the pipeline sees it: a dict.  absent is the set of
\* keys the dict does not have (the field then holds "").
PersonaKeys == {"id", "name", "role", "icon", "system_prompt", "model"}

\* a JSON list of persona objects
JList(items) == [kind |-> "list", items |-> items]

\* a JSON value that is not a list (a number, null): iterating it raises
JScalar == [kind |-> "scalar", items |-> <<>>]

\* ------------------------------------------------- generate_dynamic_personas
\* [{**PERSONAS[pid], "id": pid} for pid in DEFAULT_PERSONAS if pid in PERSONAS]
FallbackPersonas ==
  LET ids == SelectSeq(DEFAULT_PERSONAS, LAMBDA pid : pid \in DOMAIN PERSONAS)
  IN  [i \in 1..Len(ids) |->
         [id |-> ids[i], name |-> PERSONAS[ids[i]].name, role |-> PERSONAS[ids[i]].role,
          icon |-> PERSONAS[ids[i]].icon, model |-> PERSONAS[ids[i]].model,
          system_prompt |-> PERSONAS[ids[i]].system_prompt, absent |-> {}]]

\* The planner's reply.  present = FALSE: query_model returned None.
\* content.kind: "empty" (no content key, or empty content), "undecodable"
\* (json.loads raises), "json" (decodes to content.json).
\* content.json.type: "object" (a dict; haskey says whether it has the key
\* "personas", personas is that key's value) or "array" (not a dict).
NoJson == [type |-> "array", haskey |-> FALSE, personas |-> JList(<<>>)]

PlannerNone == [present |-> FALSE, content |-> [kind |-> "empty", json |-> NoJson]]

PlannerNoContent == [present |-> TRUE, content |-> [kind |-> "empty", json |-> NoJson]]

PlannerUndecodable == [present |-> TRUE, content |-> [kind |-> "undecodable", json |-> NoJson]]

PlannerArray == [present |-> TRUE, content |-> [kind |-> "json", json |-> NoJson]]

PlannerNoKey ==
  [present |-> TRUE,
   content |-> [kind |-> "json",
                json |-> [type |-> "object", haskey |-> FALSE, personas |-> JList(<<>>)]]]

PlannerPersonas(v) ==
  [present |-> TRUE,
   content |-> [kind |-> "json",
                json |-> [type |-> "object", haskey |-> TRUE, personas |-> v]]]

generate_dynamic_personas(response) ==
  IF ~response.present \/ response.content.kind = "empty"
    THEN JList(FallbackPersonas)
  ELSE IF response.content.kind = "undecodable"
    THEN JList(FallbackPersonas)       \* json.loads raised, caught
  ELSE IF response.content.json.type # "object"
    THEN JList(FallbackPersonas)       \* data.get raised, caught
  ELSE IF response.content.json.haskey
    THEN response.content.json.personas
  ELSE JList(<<>>)                     \* data.get("personas", [])

\* ---------------------------------------------------------------- responses
\* What query_model returns for a stage call: None, or a dict whose content
\* is a text (Stage1, chairman, title) or a ranking text (Stage2).
None == [present |-> FALSE, content |-> <<>>]

Reply(c) == [present |-> TRUE, content |-> c]

\* ------------------------------------------------- stage1_collect_responses
\* The dispatch loop reads persona["system_prompt"] and persona["model"] of
\* every persona before any call starts: it raises on a value that is not a
\* list and on the first persona without one of the two keys.
Stage1DispatchRaises(ps) ==
  \/ ps.kind # "list"
  \/ \E i \in 1..Len(ps.items) : ps.items[i].absent \cap {"system_prompt", "model"} # {}

Stage1Calls(ps) ==
  [i \in 1..Len(ps.items) |->
     [kind |-> "stage1", model |-> ps.items[i].model,
      system |-> ps.items[i].system_prompt, prompt |-> <<>>]]

\* The formatting loop reads id, name, role, icon of every persona whose
\* response is not None.
Stage1FormatRaises(ps, responses) ==
  \E i \in 1..Len(ps.items) :
     /\ responses[i].present
     /\ ps.items[i].absent \cap {"id", "name", "role", "icon"} # {}

Stage1Result(persona, response) ==
  [persona_id |-> persona.id, persona_name |-> persona.name,
   persona_role |-> persona.role, persona_icon |-> persona.icon,
   model |-> persona.model, response |-> response.content]

\* a result list built in the order the calls completed (as_completed)
Stage1FormatAsCompleted(ps, responses, i) ==
  LET order == SelectSeq(completed, LAMBDA k : responses[k].present)
  IN  [j \in 1..Len(order) |-> Stage1Result(ps[order[j]], responses[order[j]])]

RECURSIVE Stage1Format(_, _, _)

Stage1Format(ps, responses, i) ==
  IF i > Len(ps)
    THEN <<>>
    ELSE (IF responses[i].present THEN <<Stage1Result(ps[i], responses[i])>> ELSE <<>>)
         \o Stage1Format(ps, responses, i + 1)

\* ---------------------------------------------------- parse_ranking_from_text
\* A ranking text is a sequence of tokens.  t = "marker": the literal
\* FINAL RANKING: ; t = "num": a numbered entry "<d>. Response <c>" ;
\* t = "lab": an un-numbered "Response <c>" ; t = "txt": any other text.
Marker == [t |-> "marker", d |-> 0, c |-> ""]

Num(d, c) == [t |-> "num", d |-> d, c |-> c]

Lab(c) == [t |-> "lab", d |-> 0, c |-> c]

Txt == [t |-> "txt", d |-> 0, c |-> ""]

\* the characters chr(65), chr(66), ... , chr(100), two of them spelled out;
\* the first 26 are the class [A-Z]
AsciiFrom65 ==
  <<"A", "B", "C", "D", "E", "F", "G", "H", "I", "J", "K", "L", "M",
    "N", "O", "P", "Q", "R", "S", "T", "U", "V", "W", "X", "Y", "Z",
    "[", "backslash", "]", "^", "_", "backquote", "a", "b", "c", "d">>

Chr(n) == AsciiFrom65[n - 64]

UpperCase == {AsciiFrom65[i] : i \in 1..26}

\* the string "Response <c>"
ResponseLabel(c) == <<"Response", c>>

\* ranking_text.split("FINAL RANKING:")[1]: the text between the first
\* marker and the next one (or the end of the text)
RECURSIVE UpToMarker(_)
UpToMarker(text) ==
  IF text = <<>> \/ Head(text).t = "marker"
    THEN <<>>
    ELSE <<Head(text)>> \o UpToMarker(Tail(text))

RECURSIVE AfterFirstMarker(_)
AfterFirstMarker(text) ==
  IF Head(text).t = "marker"
    THEN UpToMarker(Tail(text))
    ELSE AfterFirstMarker(Tail(text))

\* re.findall(r'\d+\.\s*Response [A-Z]', section), then the label of each
NumberedMatches(section) ==
  LET hits == SelectSeq(section, LAMBDA k : k.t = "num" /\ k.c \in UpperCase)
  IN  [i \in 1..Len(hits) |-> ResponseLabel(hits[i].c)]

\* re.findall(r'Response [A-Z]', section)
LabelMatches(section) ==
  LET hits == SelectSeq(section, LAMBDA k : k.t \in {"num", "lab"} /\ k.c \in UpperCase)
  IN  [i \in 1..Len(hits) |-> ResponseLabel(hits[i].c)]

parse_ranking_from_text(ranking_text) ==
  IF \E i \in 1..Len(ranking_text) : ranking_text[i].t = "marker"
    THEN LET ranking_section == AfterFirstMarker(ranking_text)
         IN  IF NumberedMatches(ranking_section) # <<>>
               THEN NumberedMatches(ranking_section)
               ELSE LabelMatches(ranking_section)
    ELSE LabelMatches(ranking_text)

\* ---------------------------------------------------- stage2_collect_rankings
\* labels that start one letter late
LabelsFromB(s1) == [i \in 1..Len(s1) |-> Chr(65 + i)]

\* labels = [chr(65 + i) for i in range(len(stage1_results))]
Labels(s1) == [i \in 1..Len(s1) |-> Chr(64 + i)]

\* {f"Response {label}": result['persona_name'] for label, result in zip(...)}
LabelToPersona(s1) ==
  [k \in {ResponseLabel(Labels(s1)[i]) : i \in 1..Len(s1)} |->
     s1[CHOOSE i \in 1..Len(s1) : ResponseLabel(Labels(s1)[i]) = k].persona_name]

\* the part of the ranking prompt that depends on the turn
RankingPrompt(s1) ==
  [i \in 1..Len(s1) |-> [label |-> ResponseLabel(Labels(s1)[i]), response |-> s1[i].response]]

Stage2Calls(s1) ==
  [i \in 1..Len(s1) |->
     [kind |-> "stage2", model |-> s1[i].model, system |-> "", prompt |-> RankingPrompt(s1)]]

\* rankers identified by their raw model id
RankingModelIds(s1) == [i \in 1..Len(s1) |-> s1[i].model]

\* ranking_models: the persona names, in Stage1 order
RankingModels(s1) == [i \in 1..Len(s1) |-> s1[i].persona_name]

Stage2Result(ranker_name, response) ==
  [model |-> ranker_name, ranking |-> response.content,
   parsed_ranking |-> parse_ranking_from_text(response.content)]

\* a formatting loop that treats an unparseable ranking like a failed call
RECURSIVE Stage2FormatDropUnparsed(_, _, _)
Stage2FormatDropUnparsed(ranking_models, responses, i) ==
  IF i > Len(ranking_models)
    THEN <<>>
    ELSE (IF responses[i].present /\ parse_ranking_from_text(responses[i].content) # <<>>
            THEN <<Stage2Result(ranking_models[i], responses[i])>> ELSE <<>>)
         \o Stage2FormatDropUnparsed(ranking_models, responses, i + 1)

RECURSIVE Stage2Format(_, _, _)
Stage2Format(ranking_models, responses, i) ==
  IF i > Len(ranking_models)
    THEN <<>>
    ELSE (IF responses[i].present
            THEN <<Stage2Result(ranking_models[i], responses[i])>> ELSE <<>>)
         \o Stage2Format(ranking_models, responses, i + 1)

\* ---------------------------------------------- calculate_aggregate_rankings
\* model_positions: persona name -> list of positions, in the order the
\* names were first inserted (a dict), here a sequence of [model, positions]
AppendPosition(mp, name, position) ==
  IF \E i \in 1..Len(mp) : mp[i].model = name
    THEN [i \in 1..Len(mp) |->
            IF mp[i].model = name
              THEN [mp[i] EXCEPT !.positions = Append(@, position)]
              ELSE mp[i]]
    ELSE Append(mp, [model |-> name, positions |-> <<position>>])

RECURSIVE AddRanking(_, _, _, _)
AddRanking(mp, parsed_ranking, mapping, position) ==
  IF position > Len(parsed_ranking)
    THEN mp
    ELSE AddRanking(
           IF parsed_ranking[position] \in DOMAIN mapping
             THEN AppendPosition(mp, mapping[parsed_ranking[position]], position)
             ELSE mp,
           parsed_ranking, mapping, position + 1)

RECURSIVE ModelPositions(_, _, _)
ModelPositions(s2, mapping, i) ==
  IF i = 0
    THEN <<>>
    ELSE AddRanking(ModelPositions(s2, mapping, i - 1),
                    parse_ranking_from_text(s2[i].ranking),
                    mapping, 1)

RECURSIVE Sum(_)
Sum(positions) == IF positions = <<>> THEN 0 ELSE Head(positions) + Sum(Tail(positions))

\* the quotient cut after two decimals
Truncate2(n, d) == (100 * n) \div d

\* round(n / d, 2), in hundredths; a tie goes to the even neighbour
Round2(n, d) ==
  LET q == (100 * n) \div d
      r == (100 * n) % d
  IN  IF 2 * r < d THEN q
      ELSE IF 2 * r > d THEN q + 1
      ELSE IF q % 2 = 0 THEN q ELSE q + 1

AggregateEntry(e) ==
  [model |-> e.model, average_rank |-> Round2(Sum(e.positions), Len(e.positions)),
   rankings_count |-> Len(e.positions)]

\* an insertion that puts an entry before the entries of equal average
RECURSIVE InsertBeforeEqual(_, _)
InsertBeforeEqual(sorted, e) ==
  IF sorted = <<>> THEN <<e>>
  ELSE IF e.average_rank <= Head(sorted).average_rank THEN <<e>> \o sorted
  ELSE <<Head(sorted)>> \o InsertBeforeEqual(Tail(sorted), e)

\* list.sort(key=average_rank): stable, ascending
RECURSIVE InsertSorted(_, _)
InsertSorted(sorted, e) ==
  IF sorted = <<>> THEN <<e>>
  ELSE IF e.average_rank < Head(sorted).average_rank THEN <<e>> \o sorted
  ELSE <<Head(sorted)>> \o InsertSorted(Tail(sorted), e)

RECURSIVE SortByAverage(_, _)
SortByAverage(aggregate, i) ==
  IF i = 0 THEN <<>> ELSE InsertSorted(SortByAverage(aggregate, i - 1), aggregate[i])

calculate_aggregate_rankings(s2, mapping) ==
  LET mp == ModelPositions(s2, mapping, Len(s2))
      aggregate == [i \in 1..Len(mp) |-> AggregateEntry(mp[i])]
  IN  SortByAverage(aggregate, Len(aggregate))

\* ---------------------------------------------------- stage3_synthesize_final
ChairmanCall(s1, s2) ==
  [kind |-> "chairman", model |-> CHAIRMAN_MODEL, system |-> "",
   prompt |-> <<[stage1 |-> s1, stage2 |-> s2]>>]

\* a synthesis that hands back nothing when the chairman call fails
Stage3NoFallback(response) ==
  IF ~response.present
    THEN [model |-> "", response |-> ""]
    ELSE [model |-> "Chairman", response |-> response.content]

stage3_synthesize_final(response) ==
  IF ~response.present
    THEN [model |-> "Chairman", response |-> "Error: Unable to generate final synthesis."]
    ELSE [model |-> "Chairman", response |-> response.content]

\* ------------------------------------------------ generate_conversation_title
TitleCall == [kind |-> "title", model |-> TITLE_MODEL, system |-> "", prompt |-> <<>>]

generate_conversation_title(response) ==
  IF ~response.present THEN "New Conversation" ELSE response.content

\* ------------------------------------------------------------ run_full_council
\* the tuple returned when Stage1 is empty
AbortResult(ps) ==
  [personas |-> ps, stage1 |-> <<>>, stage2 |-> <<>>,
   stage3 |-> [model |-> "error",
               response |-> "All models failed to respond. Please try again."],
   metadata |-> [keys |-> {}, label_to_model |-> <<>>, aggregate_rankings |-> <<>>]]

Metadata(mapping, aggregate) ==
  [keys |-> {"label_to_model", "aggregate_rankings"},
   label_to_model |-> mapping, aggregate_rankings |-> aggregate]

\* ------------------------------------------------------------------- inputs
\* persona objects the planner model may emit
Legal ==
  [id |-> "legal_expert", name |-> "Legal Expert", role |-> "Corporate Law Specialist",
   icon |-> "icon-legal", model |-> "openai/gpt-5.1",
   system_prompt |-> "You are a Legal Expert.", absent |-> {}]

Ethicist ==
  [id |-> "ethicist", name |-> "Ethicist", role |-> "Moral Philosopher",
   icon |-> "icon-ethicist", model |-> "x-ai/grok-4",
   system_prompt |-> "You are an Ethicist.", absent |-> {}]

\* persona objects that miss a key
NoPrompt == [Ethicist EXCEPT !.system_prompt = "", !.absent = {"system_prompt"}]

NoIcon == [Ethicist EXCEPT !.icon = "", !.absent = {"icon"}]

PlannedLists == UNION {[1..n -> {Legal, Ethicist}] : n \in 0..MaxPlanned}

MalformedValues == {JScalar, JList(<<Legal, NoPrompt>>), JList(<<NoIcon, Legal>>)}

PlannerReplies ==
  {PlannerNone, PlannerNoContent, PlannerUndecodable, PlannerArray, PlannerNoKey}
    \cup {PlannerPersonas(JList(l)) : l \in PlannedLists}
    \cup {PlannerPersonas(v) : v \in MalformedValues}

Stage1Replies == {None, Reply("answer")}

\* a ranking in the requested format, and a text without any label
GoodRanking == <<Txt, Lab("A"), Marker, Num(1, "B"), Num(2, "A")>>

NoRanking == <<Txt>>

Stage2Replies == {None, Reply(GoodRanking), Reply(NoRanking)}

ChairmanReplies == {None, Reply("synthesis")}

TitleReplies == {None, Reply("A Short Title")}

Interfaces == {"blocking", "stream"}

NoStage3 == [model |-> "", response |-> ""]

NoTuple ==
  [personas |-> JList(<<>>), stage1 |-> <<>>, stage2 |-> <<>>, stage3 |-> NoStage3,
   metadata |-> [keys |-> {}, label_to_model |-> <<>>, aggregate_rankings |-> <<>>]]

NoRet == [status |-> "none", value |-> NoTuple]

NoTask == [state |-> "none", title |-> ""]

Summary ==
  [iface |-> iface, err |-> err, events |-> events, calls |-> calls, ret |-> ret]

\* A conversation is either new (storage.create_conversation) or already
\* holds an earlier exchange about another question: the one a turn leaves
\* behind whose planner returned an empty persona list.
NewConversation == [messages |-> <<>>, title |-> "New Conversation"]

EarlierConversation ==
  [messages |-> <<[role |-> "user", personas |-> JList(<<>>), stage1 |-> <<>>,
                   stage2 |-> <<>>, stage3 |-> NoStage3],
                  [role |-> "assistant", personas |-> JList(<<>>), stage1 |-> <<>>,
                   stage2 |-> <<>>, stage3 |-> AbortResult(JList(<<>>)).stage3]>>,
   title |-> "An Earlier Title"]

Init ==
  /\ turn = 0
  /\ iface = "blocking"
  /\ pc = "idle"
  /\ is_first_message = TRUE
  /\ \E c \in {NewConversation, EarlierConversation} :
       /\ messages = c.messages
       /\ title = c.title
  /\ personas = JList(<<>>)
  /\ tasks = <<>>
  /\ completed = <<>>
  /\ stage1_results = <<>>
  /\ label_to_persona = <<>>
  /\ stage2_results = <<>>
  /\ aggregate_rankings = <<>>
  /\ stage3_result = NoStage3
  /\ ret = NoRet
  /\ events = <<>>
  /\ calls = <<>>
  /\ title_task = NoTask
  /\ err = ""
  /\ oracle = <<>>
  /\ history = <<>>

\* ------------------------------------------------------------------ helpers
Event(type, data) == [type |-> type, data |-> data]

NoData == <<>>

\* the outcomes a call may have: the recorded one if the call was seen before
Outcomes(key, replies) == IF key \in DOMAIN oracle THEN {oracle[key]} ELSE replies

Record(key, r) == [k \in DOMAIN oracle \cup {key} |-> IF k = key THEN r ELSE oracle[k]]

Pending(n) == [i \in 1..n |-> [state |-> "pending", response |-> None]]

AllResolved == \A i \in 1..Len(tasks) : tasks[i].state = "done"

Responses == [i \in 1..Len(tasks) |-> tasks[i].response]

\* An exception leaves the handler.  The streaming endpoint's generator
\* catches it and yields one error event (main.py 205-207); the blocking
\* endpoint lets it propagate to the caller.
\* an exception that reaches the caller of the generator without an event
RaiseUncaught(step) ==
  /\ err' = step
  /\ pc' = "done"
  /\ events' = events
  /\ ret' = ret

InCouncil(step) == step \in {"stage1_dispatch", "stage1_format"}

Raise(step) ==
  /\ err' = step
  /\ pc' = "done"
  /\ events' = IF iface = "stream" THEN Append(events, Event("error", NoData)) ELSE events
  /\ ret' = IF iface = "blocking" /\ InCouncil(step)
              THEN [status |-> "raised", value |-> NoTuple] ELSE ret

\* ------------------------------------------------------------- event stream
\* main.py 169-172: what the generator yields once the personas are known
PersonasEvents(ps) == <<Event("personas_complete", ps), Event("stage1_start", NoData)>>

\* a generator that announces Stage1 only after its results
Stage1EventsSwapped(results) ==
  <<Event("stage2_start", NoData), Event("stage1_complete", results)>>

\* main.py 174-177: what the generator yields once Stage1 has returned
Stage1Events(results) ==
  <<Event("stage1_complete", results), Event("stage2_start", NoData)>>

\* main.py 180-183: what the generator yields once Stage2 has returned
Stage2Events(results, metadata) ==
  <<Event("stage2_complete", [results |-> results, metadata |-> metadata]),
    Event("stage3_start", NoData)>>

\* ------------------------------------------------------------------ storage
\* the conversation storage collaborator (backend/storage.py)
add_user_message(msgs) ==
  Append(msgs, [role |-> "user", personas |-> JList(<<>>), stage1 |-> <<>>,
                stage2 |-> <<>>, stage3 |-> NoStage3])

add_assistant_message(msgs, ps, s1, s2, s3) ==
  Append(msgs, [role |-> "assistant", personas |-> ps, stage1 |-> s1,
                stage2 |-> s2, stage3 |-> s3])

\* ------------------------------------------------------------------ actions
\* a handler that takes every message for the first one
AlwaysFirst(msgs) == TRUE

\* main.py 107 and 153: is_first_message = len(conversation["messages"]) == 0
IsFirstMessage(msgs) == Len(msgs) = 0

\* main.py 102-107 and 148-153: the handler reads the conversation and
\* notes whether it has no message yet
StartTurn(i) ==
  /\ turn' = turn + 1
  /\ iface' = i
  /\ is_first_message' = IsFirstMessage(messages)
  /\ history' = IF turn = 0 THEN history ELSE Append(history, Summary)
  /\ pc' = "begin"
  /\ personas' = JList(<<>>)
  /\ tasks' = <<>>
  /\ completed' = <<>>
  /\ stage1_results' = <<>>
  /\ label_to_persona' = <<>>
  /\ stage2_results' = <<>>
  /\ aggregate_rankings' = <<>>
  /\ stage3_result' = NoStage3
  /\ ret' = NoRet
  /\ events' = <<>>
  /\ calls' = <<>>
  /\ title_task' = NoTask
  /\ err' = ""
  /\ UNCHANGED <<messages, title, oracle>>

\* the first request on the conversation arrives at one of the endpoints
Request(i) == pc = "idle" /\ StartTurn(i)

\* a further request arrives after the previous one has been served
FollowUp(i) == pc = "done" /\ turn < MaxTurns /\ StartTurn(i)

\* send_message, main.py 109-114: store the user message, then start the
\* title call when this is the first message
BlockingBegin ==
  /\ pc = "begin" /\ iface = "blocking"
  /\ \E ok \in BOOLEAN :
       IF ok
         THEN /\ messages' = add_user_message(messages)
              /\ calls' = IF is_first_message THEN Append(calls, TitleCall) ELSE calls
              /\ pc' = IF is_first_message THEN "title_wait" ELSE "plan_call"
              /\ UNCHANGED <<err, events, ret>>
         ELSE /\ Raise("add_user_message")
              /\ UNCHANGED <<messages, calls>>
  /\ UNCHANGED <<turn, iface, is_first_message, title, pipeline_vars, title_task,
                 oracle, history>>

\* send_message, main.py 114-115: the awaited title call resolves and the
\* title is stored
BlockingTitle ==
  /\ pc = "title_wait" /\ iface = "blocking"
  /\ \E r \in Outcomes(<<"title", 0>>, TitleReplies), ok \in BOOLEAN :
       /\ oracle' = Record(<<"title", 0>>, r)
       /\ IF ok
            THEN /\ title' = generate_conversation_title(r)
                 /\ pc' = "plan_call"
                 /\ UNCHANGED <<err, events, ret>>
            ELSE /\ Raise("update_conversation_title")
                 /\ UNCHANGED title
  /\ UNCHANGED <<turn, iface, is_first_message, messages, pipeline_vars, calls,
                 title_task, history>>

\* event_generator, main.py 157-166: store the user message, create the
\* title task when this is the first message, yield personas_start
StreamBegin ==
  /\ pc = "begin" /\ iface = "stream"
  /\ \E ok \in BOOLEAN :
       IF ok
         THEN /\ messages' = add_user_message(messages)
              /\ title_task' = IF is_first_message
                                 THEN [state |-> "running", title |-> ""] ELSE NoTask
              /\ calls' = IF is_first_message THEN Append(calls, TitleCall) ELSE calls
              /\ events' = Append(events, Event("personas_start", NoData))
              /\ pc' = "plan_call"
              /\ UNCHANGED <<err, ret>>
         ELSE /\ Raise("add_user_message")
              /\ UNCHANGED <<messages, title_task, calls>>
  /\ UNCHANGED <<turn, iface, is_first_message, title, pipeline_vars, oracle, history>>

\* generate_conversation_title inside the title task, council.py 364-379
TitleTaskResolve ==
  /\ title_task.state = "running"
  /\ \E r \in Outcomes(<<"title", 0>>, TitleReplies) :
       /\ oracle' = Record(<<"title", 0>>, r)
       /\ title_task' = [state |-> "done", title |-> generate_conversation_title(r)]
  /\ UNCHANGED <<turn, iface, pc, is_first_message, messages, title, pipeline_vars,
                 ret, events, calls, err, history>>

\* generate_dynamic_personas, council.py 41-44: the planning call is issued
PlannerCall ==
  /\ pc = "plan_call"
  /\ calls' = Append(calls, [kind |-> "planner", model |-> CHAIRMAN_MODEL,
                             system |-> "", prompt |-> <<>>])
  /\ pc' = "plan_wait"
  /\ UNCHANGED <<turn, iface, is_first_message, messages, title, pipeline_vars,
                 ret, events, title_task, err, oracle, history>>

\* generate_dynamic_personas, council.py 44-67: the planning call resolves;
\* the streaming endpoint yields personas_complete and stage1_start
\* (main.py 169-172)
PlannerResolve ==
  /\ pc = "plan_wait"
  /\ \E r \in Outcomes(<<"planner", 0>>, PlannerReplies) :
       /\ oracle' = Record(<<"planner", 0>>, r)
       /\ personas' = generate_dynamic_personas(r)
  /\ events' = IF iface = "stream"
                 THEN events \o PersonasEvents(personas')
                 ELSE events
  /\ pc' = "stage1_dispatch"
  /\ UNCHANGED <<turn, iface, is_first_message, messages, title, tasks, completed,
                 stage1_results, label_to_persona, stage2_results, aggregate_rankings,
                 stage3_result, ret, calls, title_task, err, history>>

\* stage1_collect_responses, council.py 82-93: one call per persona
Stage1Dispatch ==
  /\ pc = "stage1_dispatch"
  /\ IF Stage1DispatchRaises(personas)
       THEN /\ Raise("stage1_dispatch")
            /\ UNCHANGED <<calls, tasks, completed>>
       ELSE /\ calls' = calls \o Stage1Calls(personas)
            /\ tasks' = Pending(Len(personas.items))
            /\ completed' = <<>>
            /\ pc' = "stage1_wait"
            /\ UNCHANGED <<err, events, ret>>
  /\ UNCHANGED <<turn, iface, is_first_message, messages, title, personas,
                 stage1_results, label_to_persona, stage2_results, aggregate_rankings,
                 stage3_result, title_task, oracle, history>>

\* one of the concurrent calls of the gather resolves
Resolve(stage, k, replies) ==
  /\ tasks[k].state = "pending"
  /\ \E r \in Outcomes(<<stage, k>>, replies) :
       /\ oracle' = Record(<<stage, k>>, r)
       /\ tasks' = [tasks EXCEPT ![k] = [state |-> "done", response |-> r]]
  /\ completed' = Append(completed, k)
  /\ UNCHANGED <<turn, iface, pc, is_first_message, messages, title, personas,
                 stage1_results, label_to_persona, stage2_results, aggregate_rankings,
                 stage3_result, ret, events, calls, title_task, err, history>>

\* a Stage1 call resolves (query_model returns), council.py 90-93
Stage1Resolve == pc = "stage1_wait" /\ \E k \in 1..Len(tasks) : Resolve("stage1", k, Stage1Replies)

\* a wait that returns as soon as one call has resolved
FirstCompleted == \E i \in 1..Len(tasks) : tasks[i].state = "done"

\* the gather of Stage1 returns only when every call has resolved
Stage1Barrier == AllResolved

\* a council that goes on with an empty Stage1
NeverAborts(results) == FALSE

\* run_full_council, council.py 443: "if not stage1_results"
Stage1Aborts(results) == results = <<>>

\* stage1_collect_responses, council.py 93-108, then run_full_council
\* 442-447 (blocking) or main.py 174-177 (streaming)
Stage1Join ==
  /\ pc = "stage1_wait"
  /\ Stage1Barrier
  /\ IF Stage1FormatRaises(personas, Responses)
       THEN /\ Raise("stage1_format")
            /\ UNCHANGED stage1_results
       ELSE /\ stage1_results' = Stage1Format(personas.items, Responses, 1)
            /\ err' = err
            /\ IF iface = "stream"
                 THEN /\ events' = events \o Stage1Events(stage1_results')
                      /\ pc' = "stage2_dispatch"
                      /\ ret' = ret
                 ELSE /\ events' = events
                      /\ IF Stage1Aborts(stage1_results')
                           THEN /\ ret' = [status |-> "returned", value |-> AbortResult(personas)]
                                /\ pc' = "save"
                           ELSE /\ ret' = ret
                                /\ pc' = "stage2_dispatch"
  /\ UNCHANGED <<turn, iface, is_first_message, messages, title, personas, tasks,
                 completed, label_to_persona, stage2_results, aggregate_rankings,
                 stage3_result, calls, title_task, oracle, history>>

\* stage2_collect_rankings, council.py 125-184: labels, mapping, prompt and
\* one ranking call per Stage1 result
Stage2Dispatch ==
  /\ pc = "stage2_dispatch"
  /\ label_to_persona' = LabelToPersona(stage1_results)
  /\ calls' = calls \o Stage2Calls(stage1_results)
  /\ tasks' = Pending(Len(stage1_results))
  /\ completed' = <<>>
  /\ pc' = "stage2_wait"
  /\ UNCHANGED <<turn, iface, is_first_message, messages, title, personas,
                 stage1_results, stage2_results, aggregate_rankings, stage3_result,
                 ret, events, title_task, err, oracle, history>>

\* a Stage2 call resolves, council.py 182-184
Stage2Resolve == pc = "stage2_wait" /\ \E k \in 1..Len(tasks) : Resolve("stage2", k, Stage2Replies)

\* the gather of Stage2 returns only when every call has resolved
Stage2Barrier == AllResolved

\* a council that gives up when no ranking came back
AbortOnNoRanking(results) == IF results = <<>> THEN "save" ELSE "stage3_call"

\* council.py 450-456 and main.py 178-184: whatever the rankings are, the
\* handler goes on to the synthesis
AfterStage2(results) == "stage3_call"

\* stage2_collect_rankings, council.py 184-198, then the aggregation
\* (council.py 453, main.py 179) and the streaming endpoint's events
\* (main.py 180-183)
Stage2Join ==
  /\ pc = "stage2_wait"
  /\ Stage2Barrier
  /\ stage2_results' = Stage2Format(RankingModels(stage1_results), Responses, 1)
  /\ aggregate_rankings' = calculate_aggregate_rankings(stage2_results', label_to_persona)
  /\ events' = IF iface = "stream"
                 THEN events \o Stage2Events(stage2_results',
                                             Metadata(label_to_persona, aggregate_rankings'))
                 ELSE events
  /\ pc' = AfterStage2(stage2_results')
  /\ UNCHANGED <<turn, iface, is_first_message, messages, title, personas, tasks,
                 completed, stage1_results, label_to_persona, stage3_result, ret,
                 calls, title_task, err, oracle, history>>

\* stage3_synthesize_final, council.py 217-248: the chairman call is issued
Stage3Call ==
  /\ pc = "stage3_call"
  /\ calls' = Append(calls, ChairmanCall(stage1_results, stage2_results))
  /\ pc' = "stage3_wait"
  /\ UNCHANGED <<turn, iface, is_first_message, messages, title, pipeline_vars,
                 ret, events, title_task, err, oracle, history>>

\* stage3_synthesize_final, council.py 248-260, then run_full_council
\* 462-468 (blocking) or main.py 185-188 (streaming)
Stage3Resolve ==
  /\ pc = "stage3_wait"
  /\ \E r \in Outcomes(<<"chairman", 0>>, ChairmanReplies) :
       /\ oracle' = Record(<<"chairman", 0>>, r)
       /\ stage3_result' = stage3_synthesize_final(r)
  /\ IF iface = "stream"
       THEN /\ events' = Append(events, Event("stage3_complete", stage3_result'))
            /\ pc' = IF title_task.state = "none" THEN "save" ELSE "title_join"
            /\ ret' = ret
       ELSE /\ events' = events
            /\ ret' = [status |-> "returned",
                       value |-> [personas |-> personas, stage1 |-> stage1_results,
                                  stage2 |-> stage2_results, stage3 |-> stage3_result',
                                  metadata |-> Metadata(label_to_persona, aggregate_rankings)]]
            /\ pc' = "save"
  /\ UNCHANGED <<turn, iface, is_first_message, messages, title, personas, tasks,
                 completed, stage1_results, label_to_persona, stage2_results,
                 aggregate_rankings, calls, title_task, err, history>>

\* event_generator, main.py 188-191: the title task is awaited, the title
\* stored and title_complete yielded
StreamTitleJoin ==
  /\ pc = "title_join" /\ iface = "stream"
  /\ title_task.state = "done"
  /\ \E ok \in BOOLEAN :
       IF ok
         THEN /\ title' = title_task.title
              /\ events' = Append(events, Event("title_complete", title_task.title))
              /\ pc' = "save"
              /\ UNCHANGED <<err, ret>>
         ELSE /\ Raise("update_conversation_title")
              /\ UNCHANGED title
  /\ UNCHANGED <<turn, iface, is_first_message, messages, pipeline_vars, calls,
                 title_task, oracle, history>>

\* a generator that stores the assistant message before the synthesis
SaveBeforeSynthesis ==
  /\ pc = "stage3_call" /\ iface = "stream"
  /\ messages' = add_assistant_message(messages, personas, stage1_results,
                                        stage2_results, stage3_result)
  /\ events' = Append(events, Event("complete", NoData))
  /\ pc' = "done"
  /\ UNCHANGED <<turn, iface, is_first_message, title, pipeline_vars, calls,
                 title_task, oracle, history, err, ret>>

\* event_generator, main.py 193-203: store the assistant message, yield
\* complete
StreamSave ==
  /\ pc = "save" /\ iface = "stream"
  /\ \E ok \in BOOLEAN :
       IF ok
         THEN /\ messages' = add_assistant_message(messages, personas, stage1_results,
                                                   stage2_results, stage3_result)
              /\ events' = Append(events, Event("complete", NoData))
              /\ pc' = "done"
              /\ UNCHANGED <<err, ret>>
         ELSE /\ Raise("add_assistant_message")
              /\ UNCHANGED messages
  /\ UNCHANGED <<turn, iface, is_first_message, title, pipeline_vars, calls,
                 title_task, oracle, history>>

\* send_message, main.py 118-138: run_full_council has returned; store the
\* assistant message and return the response
BlockingSave ==
  /\ pc = "save" /\ iface = "blocking"
  /\ \E ok \in BOOLEAN :
       IF ok
         THEN /\ messages' = add_assistant_message(messages, ret.value.personas,
                                                   ret.value.stage1, ret.value.stage2,
                                                   ret.value.stage3)
              /\ pc' = "done"
              /\ UNCHANGED <<err, events, ret>>
         ELSE /\ Raise("add_assistant_message")
              /\ UNCHANGED messages
  /\ UNCHANGED <<turn, iface, is_first_message, title, pipeline_vars, calls,
                 title_task, oracle, history>>

Next ==
  \/ \E i \in Interfaces : Request(i)
  \/ BlockingBegin
  \/ BlockingTitle
  \/ StreamBegin
  \/ TitleTaskResolve
  \/ PlannerCall
  \/ PlannerResolve
  \/ Stage1Dispatch
  \/ Stage1Resolve
  \/ Stage1Join
  \/ Stage2Dispatch
  \/ Stage2Resolve
  \/ Stage2Join
  \/ Stage3Call
  \/ Stage3Resolve
  \/ StreamTitleJoin
  \/ StreamSave
  \/ BlockingSave

\* one request, served by either endpoint
Spec == Init /\ [][Next]_vars

NextTurns == Next \/ \E i \in Interfaces : FollowUp(i)

\* up to MaxTurns requests, one after the other, on the same conversation
SpecTurns == Init /\ [][NextTurns]_vars

\* ---------------------------------------------------------- label assignment
\* The planner sets no limit on the number of personas (council.py 61), so
\* Stage1 may return any number of results.  A turn of the blocking endpoint
\* on a conversation that has messages, all its persona calls answered,
\* stands before stage2_collect_rankings.
ManyPersonas(n, a, b) == [i \in 1..n |-> IF i % 2 = 1 THEN a ELSE b]

AllAnswered(ps) ==
  [k \in {<<"planner", 0>>} \cup {<<"stage1", i>> : i \in 1..Len(ps)} |->
     IF k[1] = "planner" THEN PlannerPersonas(JList(ps)) ELSE Reply("answer")]

BeforeStage2(ps) ==
  /\ turn = 1
  /\ iface = "blocking"
  /\ pc = "stage2_dispatch"
  /\ is_first_message = FALSE
  /\ messages = add_user_message(EarlierConversation.messages)
  /\ title = EarlierConversation.title
  /\ personas = JList(ps)
  /\ tasks = [i \in 1..Len(ps) |-> [state |-> "done", response |-> Reply("answer")]]
  /\ completed = [i \in 1..Len(ps) |-> i]
  /\ stage1_results = Stage1Format(ps, [i \in 1..Len(ps) |-> Reply("answer")], 1)
  /\ label_to_persona = <<>>
  /\ stage2_results = <<>>
  /\ aggregate_rankings = <<>>
  /\ stage3_result = NoStage3
  /\ ret = NoRet
  /\ events = <<>>
  /\ calls = <<[kind |-> "planner", model |-> CHAIRMAN_MODEL, system |-> "",
                prompt |-> <<>>]>> \o Stage1Calls(JList(ps))
  /\ title_task = NoTask
  /\ err = ""
  /\ oracle = AllAnswered(ps)
  /\ history = <<>>

InitLabels ==
  \E n \in 1..MaxResults, a \in {Legal, Ethicist}, b \in {Legal, Ethicist} :
     BeforeStage2(ManyPersonas(n, a, b))

NextLabels == Stage2Dispatch

\* the labelling step of Stage2 on Stage1 lists of up to MaxResults results
SpecLabels == InitLabels /\ [][NextLabels]_vars

\* ------------------------------------------------------------ ranking texts
\* A turn of the blocking endpoint whose Stage1 calls all answered and whose
\* ranking calls have all resolved with the given replies stands before the
\* formatting loop of stage2_collect_rankings (council.py 186).
WithRankings(ps, replies) ==
  [k \in DOMAIN AllAnswered(ps) \cup {<<"stage2", i>> : i \in 1..Len(ps)} |->
     IF k[1] = "stage2" THEN replies[k[2]] ELSE AllAnswered(ps)[k]]

BeforeStage2Join(ps, replies) ==
  /\ turn = 1
  /\ iface = "blocking"
  /\ pc = "stage2_wait"
  /\ is_first_message = FALSE
  /\ messages = add_user_message(EarlierConversation.messages)
  /\ title = EarlierConversation.title
  /\ personas = JList(ps)
  /\ tasks = [i \in 1..Len(ps) |-> [state |-> "done", response |-> replies[i]]]
  /\ completed = [i \in 1..Len(ps) |-> i]
  /\ stage1_results = Stage1Format(ps, [i \in 1..Len(ps) |-> Reply("answer")], 1)
  /\ label_to_persona = LabelToPersona(stage1_results)
  /\ stage2_results = <<>>
  /\ aggregate_rankings = <<>>
  /\ stage3_result = NoStage3
  /\ ret = NoRet
  /\ events = <<>>
  /\ calls = <<[kind |-> "planner", model |-> CHAIRMAN_MODEL, system |-> "",
                prompt |-> <<>>]>> \o Stage1Calls(JList(ps)) \o Stage2Calls(stage1_results)
  /\ title_task = NoTask
  /\ err = ""
  /\ oracle = WithRankings(ps, replies)
  /\ history = <<>>

\* what a ranking text may be made of: the marker, numbered entries (the
\* digits not in order), un-numbered mentions and other text
ParseTokens == {Marker, Num(2, "A"), Num(1, "B"), Lab("A"), Lab("C"), Txt}

ParseTexts == UNION {[1..n -> ParseTokens] : n \in 0..MaxTextLen}

InitParse == \E text \in ParseTexts : BeforeStage2Join(<<Legal>>, <<Reply(text)>>)

NextParse == Stage2Join

\* parse_ranking_from_text on every text of up to MaxTextLen tokens
SpecParse == InitParse /\ [][NextParse]_vars

\* rankings in the requested format: the marker, then up to MaxRanked
\* numbered entries over the two labels of the turn and a label that is
\* not in the mapping
RankedEntries == {Num(1, "A"), Num(1, "B"), Num(1, "C")}

RankedTexts == {<<Marker>> \o t : t \in UNION {[1..n -> RankedEntries] : n \in 0..MaxRanked}}

RankedReplies == {None} \cup {Reply(t) : t \in RankedTexts}

InitAggregate ==
  \E a \in {Legal, Ethicist}, b \in {Legal, Ethicist}, r1 \in RankedReplies, r2 \in RankedReplies :
     BeforeStage2Join(<<a, b>>, <<r1, r2>>)

NextAggregate == Stage2Join

\* calculate_aggregate_rankings on the rankings of two rankers
SpecAggregate == InitAggregate /\ [][NextAggregate]_vars

\* ------------------------------------------------------------------- titles
\* Requests on a conversation whose council calls all answer: one persona
\* (or a personas value that is not a list), one ranking in the requested
\* format, a synthesis.  The title call and the storage writes stay free.
CouncilAnswers(planned) ==
  [k \in {<<"planner", 0>>, <<"stage1", 1>>, <<"stage2", 1>>, <<"chairman", 0>>} |->
     CASE k[1] = "planner" -> PlannerPersonas(planned)
       [] k[1] = "stage1" -> Reply("answer")
       [] k[1] = "stage2" -> Reply(GoodRanking)
       [] OTHER -> Reply("synthesis")]

InitTitle ==
  /\ turn = 0
  /\ iface = "blocking"
  /\ pc = "idle"
  /\ is_first_message = TRUE
  /\ \E conv \in {NewConversation, EarlierConversation} :
       /\ messages = conv.messages
       /\ title = conv.title
  /\ personas = JList(<<>>)
  /\ tasks = <<>>
  /\ completed = <<>>
  /\ stage1_results = <<>>
  /\ label_to_persona = <<>>
  /\ stage2_results = <<>>
  /\ aggregate_rankings = <<>>
  /\ stage3_result = NoStage3
  /\ ret = NoRet
  /\ events = <<>>
  /\ calls = <<>>
  /\ title_task = NoTask
  /\ err = ""
  /\ \E planned \in {JList(<<Legal>>), JScalar} : oracle = CouncilAnswers(planned)
  /\ history = <<>>

\* up to MaxTurns requests on one conversation, the council always answering
SpecTitle == InitTitle /\ [][NextTurns]_vars

\* --------------------------------------------------------------- properties
EventTypes == [i \in 1..Len(events) |-> events[i].type]

NonErrorTypes == SelectSeq(EventTypes, LAMBDA t : t # "error")

Emitted(type) == \E i \in 1..Len(events) : events[i].type = type

CallsOf(kind) == SelectSeq(calls, LAMBDA c : c.kind = kind)

IsPrefix(a, b) == Len(a) <= Len(b) /\ \A i \in 1..Len(a) : a[i] = b[i]

StorageSteps == {"add_user_message", "update_conversation_title", "add_assistant_message"}

\* the current turn has got past the join of Stage1: stage1_collect_responses
\* has returned its list
PastStage1 ==
  \/ pc \in {"stage2_dispatch", "stage2_wait", "stage3_call", "stage3_wait",
             "title_join", "save"}
  \/ pc = "done" /\ err = ""
  \/ pc = "done" /\ err = "add_assistant_message"
  \/ pc = "done" /\ err = "update_conversation_title" /\ iface = "stream"

\* the current turn has got past the join of Stage2
PastStage2 ==
  \/ pc \in {"stage3_call", "stage3_wait", "title_join"}
  \/ PastStage1 /\ pc \in {"save", "done"} /\ (iface = "stream" \/ stage1_results # <<>>)

\* the k-th smallest element of a set of indices
Nth(S, k) == CHOOSE i \in S : Cardinality({j \in S : j < i}) = k - 1

\* the indices of the calls of a stage that returned a reply
Succeeded(stage) ==
  {k \in 1..Len(CallsOf(stage)) : <<stage, k>> \in DOMAIN oracle /\ oracle[<<stage, k>>].present}

\* a call of the stage has been issued and has not resolved yet
Unresolved(stage) == \E k \in 1..Len(CallsOf(stage)) : <<stage, k>> \notin DOMAIN oracle

\* C1: in the blocking interface, once Stage1 has yielded an empty list the
\* tuple run_full_council returns has an empty Stage1 list, an empty Stage2
\* list and the error-shaped synthesis, and no ranking call and no chairman
\* call is issued in the turn.
C1_EmptyStage1Aborts ==
  (iface = "blocking" /\ PastStage1 /\ stage1_results = <<>>) =>
     /\ ret.status = "returned"
     /\ ret.value.personas = personas
     /\ ret.value.stage1 = <<>>
     /\ ret.value.stage2 = <<>>
     /\ ret.value.stage3 = [model |-> "error",
                            response |-> "All models failed to respond. Please try again."]
     /\ CallsOf("stage2") = <<>>
     /\ CallsOf("chairman") = <<>>

\* every persona call of a blocking turn failed and the turn has returned
C1_Witness ==
  /\ iface = "blocking" /\ pc = "done" /\ err = ""
  /\ Len(CallsOf("stage1")) >= 2
  /\ stage1_results = <<>>
  /\ ret.status = "returned"

\* the data of the (first) event of a type
Payload(evs, type) == evs[CHOOSE i \in 1..Len(evs) : evs[i].type = type].data

HasEvent(evs, type) == \E i \in 1..Len(evs) : evs[i].type = type

NotTitle(cs) == SelectSeq(cs, LAMBDA c : c.kind # "title")

\* the streaming turn's events carry what the blocking turn returned
SameInformation(tuple, evs) ==
  /\ HasEvent(evs, "personas_complete") /\ Payload(evs, "personas_complete") = tuple.personas
  /\ HasEvent(evs, "stage1_complete") /\ Payload(evs, "stage1_complete") = tuple.stage1
  /\ HasEvent(evs, "stage2_complete")
  /\ Payload(evs, "stage2_complete").results = tuple.stage2
  /\ Payload(evs, "stage2_complete").metadata = tuple.metadata
  /\ HasEvent(evs, "stage3_complete") /\ Payload(evs, "stage3_complete") = tuple.stage3

\* a blocking turn that returned, followed by a streaming turn on the same
\* question that ran to its end without a storage failure
BlockingThenStream ==
  /\ turn = 2 /\ pc = "done" /\ iface = "stream" /\ err = ""
  /\ history[1].iface = "blocking" /\ history[1].ret.status = "returned"

\* C2: on the same collaborator outcomes the streaming interface emits, in
\* personas_complete, stage1_complete, stage2_complete and stage3_complete,
\* the components of the tuple the blocking interface returns, and issues
\* the same collaborator calls; also when Stage1 is empty.
C2_StreamEqualsBlocking ==
  BlockingThenStream =>
     /\ SameInformation(history[1].ret.value, events)
     /\ NotTitle(calls) = NotTitle(history[1].calls)

\* C3: the non-error events of a stream are a prefix of the fixed sequence
\* personas_start, personas_complete, stage1_start, stage1_complete,
\* stage2_start, stage2_complete, stage3_start, stage3_complete,
\* [title_complete], complete.
StageEvents ==
  <<"personas_start", "personas_complete", "stage1_start", "stage1_complete",
    "stage2_start", "stage2_complete", "stage3_start", "stage3_complete">>

C3_EventOrder ==
  \/ IsPrefix(NonErrorTypes, StageEvents \o <<"title_complete", "complete">>)
  \/ IsPrefix(NonErrorTypes, StageEvents \o <<"complete">>)

\* a stream that ran to complete without a title event, hence on a
\* conversation that already had messages
C3_Witness ==
  /\ iface = "stream" /\ pc = "done"
  /\ EventTypes = StageEvents \o <<"complete">>

\* C4: in a stream, a failure at any step yields exactly one error event,
\* the error event is the last event, and no stream has both complete and
\* error.
ErrorCount == Len(SelectSeq(EventTypes, LAMBDA t : t = "error"))

C4_SingleTerminalError ==
  /\ ErrorCount <= 1
  /\ Emitted("error") => events[Len(events)].type = "error" /\ ~Emitted("complete")
  /\ (iface = "stream" /\ err # "") <=> Emitted("error")

\* a stream whose Stage1 raised after earlier events had been emitted
C4_Witness ==
  /\ iface = "stream" /\ pc = "done" /\ err = "stage1_format"
  /\ EventTypes = <<"personas_start", "personas_complete", "stage1_start", "error">>

\* C5: run_full_council never raises: for every planner output that decodes
\* (a personas value that is not a list, persona objects that miss a key
\* included) it returns a tuple.
C5_NoExceptionEscapes == ret.status # "raised"

\* the planning call of the current turn has resolved
Planned == <<"planner", 0>> \in DOMAIN oracle /\ pc \notin {"idle", "begin", "title_wait"}

PlanningFailures == {PlannerNone, PlannerNoContent, PlannerUndecodable, PlannerNoKey}

IsDefaultSubset(ps) ==
  /\ ps.kind = "list"
  /\ Len(ps.items) = Len(DEFAULT_PERSONAS)
  /\ Len(ps.items) > 0
  /\ \A i \in 1..Len(ps.items) :
       /\ ps.items[i].id = DEFAULT_PERSONAS[i]
       /\ ps.items[i].name = PERSONAS[DEFAULT_PERSONAS[i]].name
       /\ ps.items[i].model = PERSONAS[DEFAULT_PERSONAS[i]].model
       /\ ps.items[i].absent = {}

\* C6: on each of the four planning failures (no result, no content,
\* content that does not decode, decoded object without a personas key)
\* generate_dynamic_personas returns the configured default subset, in
\* configured order, each entry with its configured id.
C6_FallbackOnPlanningFailure ==
  (Planned /\ oracle[<<"planner", 0>>] \in PlanningFailures) => IsDefaultSubset(personas)

\* C7: the Stage1 result list is the persona list restricted to the
\* personas whose call succeeded, in input order whatever the order in
\* which the calls resolved; a failed call leaves no entry and does not
\* touch the others.
C7_Stage1InputOrder ==
  PastStage1 =>
     LET S == Succeeded("stage1")
     IN  /\ Len(stage1_results) = Cardinality(S)
         /\ Len(stage1_results) <= Len(personas.items)
         /\ \A j \in 1..Len(stage1_results) :
              LET p == personas.items[Nth(S, j)]
              IN  stage1_results[j] =
                    [persona_id |-> p.id, persona_name |-> p.name, persona_role |-> p.role,
                     persona_icon |-> p.icon, model |-> p.model,
                     response |-> oracle[<<"stage1", Nth(S, j)>>].content]

\* three personas, the calls resolved in the order 3, 2, 1 and the first
\* one failed
C7_Witness ==
  /\ pc = "stage2_dispatch"
  /\ completed = <<3, 2, 1>>
  /\ Succeeded("stage1") = {2, 3}
  /\ Len(stage1_results) = 2

\* C8: while a Stage1 call is unresolved no ranking call has been
\* dispatched and stage1_complete has not been emitted; while a Stage2 call
\* is unresolved neither the aggregation nor the chairman call has begun.
C8_StageBarriers ==
  /\ Unresolved("stage1") =>
       /\ CallsOf("stage2") = <<>>
       /\ ~Emitted("stage1_complete")
       /\ stage1_results = <<>>
       /\ ret.status = "none"
  /\ Unresolved("stage2") =>
       /\ CallsOf("chairman") = <<>>
       /\ ~Emitted("stage2_complete")
       /\ stage2_results = <<>>
       /\ aggregate_rankings = <<>>

\* a stage with one call resolved and another still in flight
C8_Witness ==
  /\ pc = "stage2_wait"
  /\ Len(completed) = 1
  /\ Unresolved("stage2")
  /\ Emitted("stage1_complete")

ResolvedPositions(parsed, mapping) ==
  Cardinality({q \in 1..Len(parsed) : parsed[q] \in DOMAIN mapping})

RECURSIVE TotalResolved(_, _, _)
TotalResolved(s2, mapping, j) ==
  IF j = 0 THEN 0
  ELSE ResolvedPositions(s2[j].parsed_ranking, mapping) + TotalResolved(s2, mapping, j - 1)

RECURSIVE TotalCount(_, _)
TotalCount(aggregate, j) ==
  IF j = 0 THEN 0 ELSE aggregate[j].rankings_count + TotalCount(aggregate, j - 1)

\* C9: Stage2 dispatches one ranking call per Stage1 result, to that
\* result's model and all with the same prompt, and none for a persona that
\* failed Stage1; the Stage2 result list is the Stage1 list restricted to
\* the rankers whose call succeeded, in Stage1 order, each named by the
\* persona display name; the aggregate counts positions of these only.
C9_Stage2Rankers ==
  /\ (pc = "stage2_wait" \/ PastStage2) =>
       /\ Len(CallsOf("stage2")) = Len(stage1_results)
       /\ Len(CallsOf("stage2")) = Cardinality(Succeeded("stage1"))
       /\ \A i \in 1..Len(stage1_results) :
            /\ CallsOf("stage2")[i].model = stage1_results[i].model
            /\ CallsOf("stage2")[i].prompt = CallsOf("stage2")[1].prompt
  /\ PastStage2 =>
       LET S == Succeeded("stage2")
       IN  /\ Len(stage2_results) = Cardinality(S)
           /\ \A j \in 1..Len(stage2_results) :
                /\ stage2_results[j].model = stage1_results[Nth(S, j)].persona_name
                /\ stage2_results[j].ranking = oracle[<<"stage2", Nth(S, j)>>].content
           /\ TotalCount(aggregate_rankings, Len(aggregate_rankings))
                = TotalResolved(stage2_results, label_to_persona, Len(stage2_results))

\* three Stage1 results, the second ranker failed, the third resolved first
C9_Witness ==
  /\ pc = "stage3_call"
  /\ Len(stage1_results) = 3
  /\ Succeeded("stage2") = {1, 3}
  /\ completed[1] = 3
  /\ Len(stage2_results) = 2
  /\ aggregate_rankings # <<>>

\* C10: a ranking failure does not abort the turn: when Stage1 is not empty,
\* whichever rankers fail, the chairman call is issued exactly once and the
\* turn ends with a complete result: run_full_council returns its tuple and
\* the stream emits stage3_complete and, unless a storage write fails
\* afterwards, complete.
C10_RankingFailureNoAbort ==
  (pc = "done" /\ PastStage1 /\ stage1_results # <<>>) =>
     /\ Len(CallsOf("chairman")) = 1
     /\ iface = "blocking" =>
          /\ ret.status = "returned"
          /\ ret.value.stage1 = stage1_results
          /\ ret.value.stage2 = stage2_results
          /\ ret.value.stage3 = stage3_result
     /\ iface = "stream" =>
          /\ Emitted("stage3_complete")
          /\ ~Emitted("error") => events[Len(events)].type = "complete"

\* a stream with two Stage1 results whose rankers all failed, run to complete
C10_Witness ==
  /\ iface = "stream" /\ pc = "done" /\ err = ""
  /\ Len(stage1_results) = 2
  /\ Len(CallsOf("stage2")) = 2
  /\ Succeeded("stage2") = {}
  /\ events[Len(events)].type = "complete"

\* the chairman call of the current turn has resolved
PastStage3 == CallsOf("chairman") # <<>> /\ pc # "stage3_wait"

ChairmanFallback ==
  [model |-> "Chairman", response |-> "Error: Unable to generate final synthesis."]

Stage3Events == SelectSeq(events, LAMBDA e : e.type = "stage3_complete")

\* C11: when the chairman call fails Stage3 returns the fixed fallback
\* synthesis instead of raising; a turn that reaches Stage3 issues one
\* chairman call and produces one synthesis (returned in the tuple, emitted
\* once in stage3_complete); the turn then completes and its assistant
\* message holds the personas, Stage1, Stage2 and that synthesis, unless a
\* storage write fails afterwards.
C11_ChairmanFallback ==
  /\ ~PastStage3 => stage3_result = NoStage3 /\ Stage3Events = <<>>
  /\ PastStage3 =>
       /\ Len(CallsOf("chairman")) = 1
       /\ stage3_result =
            IF oracle[<<"chairman", 0>>].present
              THEN [model |-> "Chairman", response |-> oracle[<<"chairman", 0>>].content]
              ELSE ChairmanFallback
       /\ iface = "blocking" => ret.status = "returned" /\ ret.value.stage3 = stage3_result
       /\ iface = "stream" => Stage3Events = <<Event("stage3_complete", stage3_result)>>
       /\ pc = "done" => err \in {"", "update_conversation_title", "add_assistant_message"}
       /\ (pc = "done" /\ err = "") =>
            messages[Len(messages)] =
              [role |-> "assistant", personas |-> personas, stage1 |-> stage1_results,
               stage2 |-> stage2_results, stage3 |-> stage3_result]

\* a stream whose chairman call failed, run to complete with the fallback
\* synthesis stored
C11_Witness ==
  /\ iface = "stream" /\ pc = "done" /\ err = ""
  /\ ~oracle[<<"chairman", 0>>].present
  /\ stage2_results # <<>>
  /\ messages[Len(messages)].stage3 = ChairmanFallback
  /\ events[Len(events)].type = "complete"

\* the 26 letters, written out
Alphabet ==
  <<"A", "B", "C", "D", "E", "F", "G", "H", "I", "J", "K", "L", "M",
    "N", "O", "P", "Q", "R", "S", "T", "U", "V", "W", "X", "Y", "Z">>

\* the labels shown to the rankers in the ranking prompt
PromptLabels ==
  IF CallsOf("stage2") = <<>> THEN {}
  ELSE {CallsOf("stage2")[1].prompt[i].label : i \in 1..Len(CallsOf("stage2")[1].prompt)}

\* C12: for a Stage1 list of n <= 26 results the label mapping has exactly
\* n entries, and the i-th result is keyed by "Response " followed by the
\* i-th letter of the alphabet and mapped to that result's persona display
\* name; the mapping is determined by the Stage1 list alone.
C12_LabelsByPosition ==
  (pc = "stage2_wait" /\ Len(stage1_results) <= Len(Alphabet)) =>
     /\ Cardinality(DOMAIN label_to_persona) = Len(stage1_results)
     /\ \A i \in 1..Len(stage1_results) :
          /\ <<"Response", Alphabet[i]>> \in DOMAIN label_to_persona
          /\ label_to_persona[<<"Response", Alphabet[i]>>] = stage1_results[i].persona_name
          /\ CallsOf("stage2")[1].prompt[i].label = <<"Response", Alphabet[i]>>

\* 26 results, alternately of two personas: the last label is Response Z
C12_Witness ==
  /\ pc = "stage2_wait"
  /\ Len(stage1_results) = 26
  /\ stage1_results[1].persona_name = "Legal Expert"
  /\ label_to_persona[<<"Response", "Z">>] = "Ethicist"

\* C13: every label of the mapping, and every label shown to a ranker, is
\* "Response " followed by one letter of A..Z.
C13_LabelsWithinAlphabet ==
  \A k \in DOMAIN label_to_persona \cup PromptLabels :
     \E i \in 1..Len(Alphabet) : k = <<"Response", Alphabet[i]>>

HasMarker(text) == \E i \in 1..Len(text) : text[i].t = "marker"

\* all the text that follows the first marker
PostMarker(text) ==
  LET first == CHOOSE i \in 1..Len(text) :
                 text[i].t = "marker" /\ \A j \in 1..(i - 1) : text[j].t # "marker"
  IN  SubSeq(text, first + 1, Len(text))

NumberedEntries(text) == SelectSeq(text, LAMBDA k : k.t = "num")

Mentions(text) == SelectSeq(text, LAMBDA k : k.t \in {"num", "lab"})

LabelsOf(entries) == [i \in 1..Len(entries) |-> <<"Response", entries[i].c>>]

\* C14: when the text holds the marker and a numbered entry after it, the
\* parsed ranking is the labels of the numbered entries after the marker,
\* in order of appearance, duplicates kept, without the un-numbered
\* mentions and without anything before the marker.
C14_NumberedRule ==
  \A j \in 1..Len(stage2_results) :
     LET text == stage2_results[j].ranking
     IN  (HasMarker(text) /\ NumberedEntries(PostMarker(text)) # <<>>) =>
            stage2_results[j].parsed_ranking = LabelsOf(NumberedEntries(PostMarker(text)))

\* C15: without the marker the parsed ranking is every label mention of the
\* whole text, in order; with the marker and no numbered entry after it,
\* every label mention of the text after the marker, in order; none when
\* the scanned text has no mention.
C15_FallbackRules ==
  \A j \in 1..Len(stage2_results) :
     LET text == stage2_results[j].ranking
     IN  /\ ~HasMarker(text) =>
              stage2_results[j].parsed_ranking = LabelsOf(Mentions(text))
         /\ (HasMarker(text) /\ NumberedEntries(PostMarker(text)) = <<>>) =>
              stage2_results[j].parsed_ranking = LabelsOf(Mentions(PostMarker(text)))

\* the (ranker, index) pairs at which a name is ranked: the label at that
\* 1-based index of the ranker's parsed order resolves to the name
PositionsOf(name) ==
  UNION {{<<j, q>> : q \in {q \in 1..Len(stage2_results[j].parsed_ranking) :
                              /\ stage2_results[j].parsed_ranking[q] \in DOMAIN label_to_persona
                              /\ label_to_persona[stage2_results[j].parsed_ranking[q]] = name}} :
         j \in 1..Len(stage2_results)}

RankedNames ==
  {n \in {label_to_persona[k] : k \in DOMAIN label_to_persona} : PositionsOf(n) # {}}

RECURSIVE SumOfIndices(_)
SumOfIndices(S) ==
  IF S = {} THEN 0
  ELSE LET p == CHOOSE x \in S : TRUE IN p[2] + SumOfIndices(S \ {p})

Abs(x) == IF x < 0 THEN -x ELSE x

\* C16: the aggregate has one entry per persona name that is ranked at
\* least once; its rankings_count is the number of (ranker, index) pairs at
\* which a label resolving to the name stands (an unmapped label occupies
\* its index, a repeated label counts each time) and its average_rank is
\* the mean of these 1-based indices rounded to the nearest hundredth.
C16_AggregationArithmetic ==
  PastStage2 =>
     /\ Len(aggregate_rankings) = Cardinality(RankedNames)
     /\ {aggregate_rankings[i].model : i \in 1..Len(aggregate_rankings)} = RankedNames
     /\ \A i \in 1..Len(aggregate_rankings) :
          LET P == PositionsOf(aggregate_rankings[i].model)
              e == aggregate_rankings[i]
          IN  /\ e.rankings_count = Cardinality(P)
              /\ 2 * Abs(100 * SumOfIndices(P) - e.average_rank * e.rankings_count)
                   <= e.rankings_count

\* the orders [A, B] and [B, A]: both personas average 1.5 over 2 positions
C16_Witness ==
  /\ pc = "stage3_call"
  /\ Len(stage2_results) = 2
  /\ stage2_results[1].parsed_ranking = <<ResponseLabel("A"), ResponseLabel("B")>>
  /\ stage2_results[2].parsed_ranking = <<ResponseLabel("B"), ResponseLabel("A")>>
  /\ aggregate_rankings =
       <<[model |-> "Legal Expert", average_rank |-> 150, rankings_count |-> 2],
         [model |-> "Ethicist", average_rank |-> 150, rankings_count |-> 2]>>

Before(p, r) == p[1] < r[1] \/ (p[1] = r[1] /\ p[2] < r[2])

\* where a name received its first position: first ranker, earliest index
FirstOf(name) ==
  CHOOSE p \in PositionsOf(name) : \A r \in PositionsOf(name) : p = r \/ Before(p, r)

\* C17: the aggregate is in non-decreasing order of average_rank, and
\* entries of equal average_rank stand in the order in which their names
\* first received a position.
C17_SortedStable ==
  PastStage2 =>
     \A i \in 1..Len(aggregate_rankings), k \in 1..Len(aggregate_rankings) :
        i < k =>
          /\ aggregate_rankings[i].average_rank <= aggregate_rankings[k].average_rank
          /\ aggregate_rankings[i].average_rank = aggregate_rankings[k].average_rank =>
               Before(FirstOf(aggregate_rankings[i].model), FirstOf(aggregate_rankings[k].model))

\* a tie between two personas, the second persona ranked first by the
\* first ranker and therefore listed first
C17_Witness ==
  /\ pc = "stage3_call"
  /\ Len(aggregate_rankings) = 2
  /\ aggregate_rankings[1].average_rank = aggregate_rankings[2].average_rank
  /\ aggregate_rankings[1].model = "Ethicist"
  /\ stage1_results[1].persona_name = "Legal Expert"
  /\ stage2_results[1].parsed_ranking[1] = ResponseLabel("B")

\* the rankers whose parsed order is not empty
Parsed == SelectSeq(stage2_results, LAMBDA r : r.parsed_ranking # <<>>)

\* C18: a ranker whose call succeeded with a text that has no label
\* mention still has its Stage2 result, with an empty parsed order; the
\* aggregate is the one of the other rankers alone; and the turn goes on to
\* the chairman call.
C18_UnparseableIsEmpty ==
  PastStage2 =>
     LET S == Succeeded("stage2")
     IN  /\ Len(stage2_results) = Cardinality(S)
         /\ \A j \in 1..Len(stage2_results) :
              LET text == oracle[<<"stage2", Nth(S, j)>>].content
              IN  Mentions(text) = <<>> =>
                    /\ stage2_results[j].ranking = text
                    /\ stage2_results[j].parsed_ranking = <<>>
                    /\ \A i \in 1..Len(aggregate_rankings) :
                         \A p \in PositionsOf(aggregate_rankings[i].model) : p[1] # j
         /\ aggregate_rankings = calculate_aggregate_rankings(Parsed, label_to_persona)
         /\ pc = "stage3_call" \/ Len(CallsOf("chairman")) = 1

\* two rankers answered, the first with a text without any label; the
\* aggregate holds the second ranker's two positions and the turn completed
C18_Witness ==
  /\ pc = "done" /\ err = ""
  /\ Len(stage2_results) = 2
  /\ stage2_results[1].ranking = NoRanking
  /\ stage2_results[1].parsed_ranking = <<>>
  /\ stage2_results[2].parsed_ranking # <<>>
  /\ Len(aggregate_rankings) = 2
  /\ stage3_result # NoStage3

\* the messages the current turn has stored so far
StoredThisTurn ==
  (IF pc \in {"idle", "begin"} \/ err = "add_user_message" THEN 0 ELSE 1)
    + (IF pc = "done" /\ err = "" THEN 1 ELSE 0)

\* the conversation had no message when the request of the current turn arrived
EmptyAtArrival == Len(messages) = StoredThisTurn

IndexOf(type) == CHOOSE i \in 1..Len(events) : events[i].type = type

\* within one streaming turn: the title task is started, before the
\* planning call, exactly when the conversation was empty at arrival; it is
\* joined after stage3_complete and before complete; the title is written
\* and title_complete emitted only at that join
TitleTaskDiscipline ==
  iface = "stream" =>
     /\ CallsOf("title") # <<>> <=>
          (EmptyAtArrival /\ pc \notin {"idle", "begin"} /\ err # "add_user_message")
     /\ CallsOf("title") # <<>> => Len(CallsOf("title")) = 1 /\ calls[1].kind = "title"
     /\ CallsOf("title") = <<>> => ~Emitted("title_complete")
     /\ Emitted("title_complete") =>
          /\ title_task.state = "done"
          /\ Emitted("stage3_complete")
          /\ IndexOf("stage3_complete") < IndexOf("title_complete")
          /\ events[IndexOf("title_complete")].data = title_task.title
          /\ title = title_task.title
     /\ (CallsOf("title") # <<>> /\ ~Emitted("title_complete")) => title = NewConversation.title
     /\ (CallsOf("title") # <<>> /\ Emitted("complete")) =>
          Emitted("title_complete") /\ IndexOf("title_complete") < IndexOf("complete")

\* the turns served so far (the current one included) that emitted title_complete
TitledTurns ==
  {k \in 1..Len(history) : HasEvent(history[k].events, "title_complete")}
    \cup (IF Emitted("title_complete") THEN {turn} ELSE {})

\* the statement of C19 as it stands: title_complete is emitted in at most
\* one turn of a conversation, and that turn is the first one
C19_TitleOnlyInFirstTurn ==
  /\ TitleTaskDiscipline
  /\ TitledTurns \subseteq {1}

\* C19 (amended): in a stream the title task is started before planning
\* exactly when the conversation had no message at arrival, joined after
\* stage3_complete and before complete, and the title written and
\* title_complete emitted only at that join; over the turns of a
\* conversation title_complete is emitted in at most one turn, and every
\* turn before that one failed to store its user message.
C19_TitleOnce ==
  /\ TitleTaskDiscipline
  /\ Cardinality(TitledTurns) <= 1
  /\ \A t \in TitledTurns : \A k \in 1..(t - 1) : history[k].err = "add_user_message"

\* the second request emits title_complete: the first one failed to store
\* its user message and left the conversation empty
C19_Witness ==
  /\ turn = 2 /\ iface = "stream" /\ pc = "done" /\ err = ""
  /\ history[1].err = "add_user_message"
  /\ EventTypes = StageEvents \o <<"title_complete", "complete">>
  /\ title = "A Short Title"

TerminalCount == Len(SelectSeq(EventTypes, LAMBDA t : t \in {"complete", "error"}))

\* the turn has entered run_full_council
CouncilEntered == CallsOf("planner") # <<>>

\* what a handler that has not ended waits for is a call that was issued
\* and resolves, so the handler is never stuck
AwaitsIssuedCall ==
  /\ pc \in {"stage1_wait", "stage2_wait"} =>
       (\E k \in 1..Len(tasks) : tasks[k].state = "pending") \/ AllResolved
  /\ pc = "title_join" => title_task.state \in {"running", "done"}
  /\ pc = "title_wait" => CallsOf("title") # <<>>
  /\ pc \in {"plan_wait", "stage3_wait"} => calls # <<>>

\* C20: every turn ends with exactly one outcome: a turn that has not ended
\* is never stuck (so it ends once every call resolves); when a blocking
\* turn that entered run_full_council has ended, the tuple has been
\* returned; when a streaming turn has ended, it has emitted exactly one
\* terminal event, complete or error, as its last event.
C20_OneOutcome ==
  /\ AwaitsIssuedCall
  /\ TerminalCount <= 1
  /\ (pc = "done" /\ iface = "blocking" /\ CouncilEntered) => ret.status = "returned"
  /\ (pc = "done" /\ iface = "stream") =>
       /\ TerminalCount = 1
       /\ events[Len(events)].type \in {"complete", "error"}

MarkerCount(text) == Cardinality({i \in 1..Len(text) : text[i].t = "marker"})

\* C21: when the marker occurs more than once, the parsed ranking is
\* computed from all the text after the first marker, a later marker
\* counting as ordinary text: the numbered entries of that text if there is
\* one, else its label mentions.
C21_LaterMarkerIsText ==
  \A j \in 1..Len(stage2_results) :
     LET text == stage2_results[j].ranking
     IN  MarkerCount(text) > 1 =>
           stage2_results[j].parsed_ranking =
             IF NumberedEntries(PostMarker(text)) # <<>>
               THEN LabelsOf(NumberedEntries(PostMarker(text)))
               ELSE LabelsOf(Mentions(PostMarker(text)))

\* the (ranker, index) pairs at which the label of the i-th Stage1 result stands
PositionsOfResult(i) ==
  UNION {{<<j, q>> : q \in {q \in 1..Len(stage2_results[j].parsed_ranking) :
                              stage2_results[j].parsed_ranking[q] = <<"Response", Alphabet[i]>>}} :
         j \in 1..Len(stage2_results)}

\* the Stage1 results whose label was ranked by some ranker
RankedResults == {i \in 1..Len(stage1_results) : PositionsOfResult(i) # {}}

\* C22: the aggregate has exactly one entry per Stage1 result whose label
\* was ranked, holding the positions of that result alone, also when two
\* results carry the same display name.
C22_OneEntryPerPersona ==
  PastStage2 =>
     /\ Len(aggregate_rankings) = Cardinality(RankedResults)
     /\ \A i \in RankedResults :
          \E k \in 1..Len(aggregate_rankings) :
             /\ aggregate_rankings[k].model = stage1_results[i].persona_name
             /\ aggregate_rankings[k].rankings_count = Cardinality(PositionsOfResult(i))

\* C23: the fifth component of every tuple run_full_council returns holds
\* both the label mapping and the aggregate rankings; in the Stage1-empty
\* abort both are present and empty.
C23_MetadataComplete ==
  ret.status = "returned" =>
     /\ ret.value.metadata.keys = {"label_to_model", "aggregate_rankings"}
     /\ ret.value.metadata.label_to_model = label_to_persona
     /\ ret.value.metadata.aggregate_rankings = aggregate_rankings
     /\ ret.value.stage1 = <<>> =>
          /\ ret.value.metadata.label_to_model = <<>>
          /\ ret.value.metadata.aggregate_rankings = <<>>

\* the synthesis of the current turn is final: Stage3 has returned, or the
\* blocking council has returned its tuple (the abort included)
SynthesisFinal ==
  stage3_result # NoStage3 \/ (iface = "blocking" /\ ret.status = "returned")

Last(seq) == seq[Len(seq)]

\* the statement of C24 as it stands: no step writes a message or the title
\* before the synthesis of the turn is final
C24_NoWriteBeforeSynthesis ==
  [][(messages' # messages \/ title' # title) => SynthesisFinal]_vars

\* C24 (amended): the user message is written first, before any model
\* call of the turn, and the blocking endpoint writes the title before the
\* council runs; the assistant message, and in the stream the title, are
\* written only once the synthesis of the turn is final.
C24_AssistantAfterSynthesis ==
  [][/\ (messages' # messages /\ Last(messages').role = "user") =>
          /\ calls = <<>>
          /\ ~SynthesisFinal
     /\ (messages' # messages /\ Last(messages').role = "assistant") =>
          /\ SynthesisFinal
          /\ Last(messages').stage3 =
               (IF iface = "blocking" THEN ret.value.stage3 ELSE stage3_result)
     /\ (title' # title /\ iface = "blocking") => CallsOf("planner") = <<>>
     /\ (title' # title /\ iface = "stream") => SynthesisFinal]_vars

\* a first streaming turn run to its end: user message, then after the
\* synthesis the title and the assistant message
C24_Witness ==
  /\ iface = "stream" /\ pc = "done" /\ err = ""
  /\ Len(messages) = 2
  /\ messages[1].role = "user"
  /\ messages[2].role = "assistant" /\ messages[2].stage3 = stage3_result
  /\ stage3_result # NoStage3
  /\ title = "A Short Title"

\* C25: when a stream that started a title task has ended, whether with
\* complete or with an error that is not a failed storage write, the task
\* has finished and been joined: it is not left running and the
\* conversation holds the title it produced.
C25_TitleTaskJoined ==
  (iface = "stream" /\ pc = "done" /\ title_task.state # "none" /\ err \notin StorageSteps) =>
     /\ title_task.state = "done"
     /\ title = title_task.title
     /\ Emitted("title_complete")

====
